---- MODULE Spec2Model ----
(***************************************************************************)
(* Datasource lifecycle, fetch dispatch and loop worker of qtpyvis.        *)
(*                                                                         *)
(* One Datasource instance is modelled.  Its class is fixed at             *)
(* construction (variable cls):                                            *)
(*   "DataWebcam"  class DataWebcam(Loop, Snapshot)   (datasource/webcam)  *)
(*   "Indexed"     a class composed as (Indexed, Snapshot) that keeps the  *)
(*                 base class' prepared property (always True) and whose   *)
(*                 backend supplies _fetch_index, _get_index and __len__.  *)
(*                                                                         *)
(* Two further specifications share the variables: RegistrySpec, the       *)
(* constructions of Datasource instances and the table of instances by id, *)
(* and LabeledSpec, one instance of a subclass of Labeled (cls "Labeled")  *)
(* whose backend supplies prepared, _prepare_data, _fetch, _get_label,     *)
(* number_of_labels and _prepare_labels.                                   *)
(* ControllerSpec is the Controller of tools/face/landmarks with the runs  *)
(* of its processing loop and the @run decorator of base that wraps it.    *)
(*                                                                         *)
(* The caller's thread executes one public method per step.  The run_loop  *)
(* workers run on their own threads and interleave with the caller and     *)
(* with each other one statement at a time.                                *)
(***************************************************************************)
EXTENDS Integers, Sequences, FiniteSets, TLC

\* ------------------------------------------------------------------ bounds
MaxWorkers == 2      \* run_loop threads that may exist at the same time
MaxLen == 3          \* largest length of the Indexed source
MaxInstances == 3    \* Datasource instances constructed in one process
NumLabels == 2       \* number_of_labels of the Labeled source once its labels are prepared
MaxRuns == 2         \* runs of Controller._process_all that may exist at the same time
MaxData == 2         \* distinct data items handed to Controller.process_all

Workers == 1..MaxWorkers

\* Python's None as a value of the index
None == 0 - 1

Classes == {"DataWebcam", "Indexed"}
Platforms == {"linux", "other"}

VARIABLES
    cls,              \* class of the instance
    platform,         \* sys.platform
    length,           \* len(self) of the Indexed source
    snapshot_impl,    \* does the backend of the Indexed source override _fetch_snapshot
    capture,          \* DataWebcam._capture: "None", or a VideoCapture that is
                      \* "opened" or "unopened" (it failed to open the device)
    frame,            \* DataWebcam._frame: "None", or a frame that is "paired" (read by
                      \* the fetch call that made the Metadata now in _metadata) or "unpaired"
    metadata,         \* Datasource._metadata: "None" or "Metadata"
    index,            \* current index of the Indexed source (None before the first fetch)
    item,             \* current item of the Indexed source
    loop_stop_event,  \* Loop._loop_stop_event.is_set()
    busy,             \* BusyObservable.busy
    wpc,              \* position of each run_loop worker
    wcall,            \* the fetch call a worker is executing: "None", or "paired" (its
                      \* Metadata is the one in _metadata) or "unpaired" (it was replaced)
    wdue,             \* time.time() has passed the worker's last_time + _loop_interval
    delivered,        \* notifications delivered to the observers by the last step
    calls,            \* backend primitives and fetch strategies entered by the last step
    handed,           \* index handed to _fetch_index by the last fetch call
    op,               \* the last step: the method, its outcome and the value it returned
    item_lookup_table,\* Datasource._item_lookup_table: id -> number of the instance (0: no entry)
    instance_ids,     \* the _id of every constructed instance, in the order of construction
    lprepared,        \* prepared of the Labeled source
    number_of_labels, \* number_of_labels of the Labeled source (None before _prepare_labels)
    label_formats,    \* Labeled._label_formats: format name -> forward table
    label_reverse,    \* Labeled._label_reverse: format name -> reverse table
    formats_attr,     \* the attribute _formats of the Labeled source: "unset" or "{}"
    next_data,        \* Controller._next_data: None or a data item
    ctl_data,         \* Controller._data
    detections,       \* the data item that Controller._detections was computed for
    detector_busy,    \* Controller._detector.busy
    rpc               \* position of each run of Controller._process_all

regVars == <<item_lookup_table, instance_ids>>
ctlVars == <<next_data, ctl_data, detections, detector_busy, rpc>>
labelVars == <<lprepared, number_of_labels, label_formats, label_reverse, formats_attr>>
cfgVars == <<cls, platform, length, snapshot_impl>>
dataVars == <<capture, frame, metadata>>
idxVars == <<index, item>>
loopVars == <<loop_stop_event, busy>>
workerVars == <<wpc, wcall, wdue>>
histVars == <<delivered, calls, handed, op>>
vars == <<cfgVars, dataVars, idxVars, loopVars, workerVars, histVars, regVars, labelVars,
          ctlVars>>

NoItem == [kind |-> "none", index |-> None]

Element(i) == [kind |-> "element", index |-> i]

SnapshotItem == [kind |-> "snapshot", index |-> None]

Op(name, ret, val) == [name |-> name, ret |-> ret, val |-> val]

\* ------------------------------------------------------------ construction
\* ids of Datasource instances: the default id of DataWebcam, an id a caller
\* makes up, and the ids Datasource.__init__ composes from the class name and
\* a table size (a caller can pass such a string as well);
\* a plain id is <<text, None>>; <<class name, n>> is the string
\* class name + "-" + str(n)
Ids == {<<"Webcam", None>>, <<"mine", None>>}
           \cup {<<"Datasource", n>> : n \in 0..MaxInstances}

\* the table of instances before any construction
EmptyRegistry ==
    /\ item_lookup_table = [i \in Ids |-> 0]
    /\ instance_ids = << >>

\* names of label formats
Formats == {"text"}

\* the texts that label tables hold
Texts == {"cat", "dog"}

\* label values: an int, a str, None, or a sequence of ints and strs
IntLabel(n) == [kind |-> "int", n |-> n, s |-> "", items |-> << >>]

StrLabel(t) == [kind |-> "str", n |-> 0, s |-> t, items |-> << >>]

NoneLabel == [kind |-> "None", n |-> 0, s |-> "", items |-> << >>]

Batch(labels) == [kind |-> "seq", n |-> 0, s |-> "", items |-> labels]

\* no table under a format name; keys is the dict of a reverse table
NoTable == [kind |-> "absent", values |-> << >>, keys |-> [t \in Texts |-> None]]

\* the runs of Controller._process_all and the data items of its callers
Runs == 1..MaxRuns

DataItems == 1..MaxData

\* Controller before the first process_all: no data, the detector not busy
NoController ==
    /\ next_data = None
    /\ ctl_data = None
    /\ detections = None
    /\ detector_busy = FALSE
    /\ rpc = [r \in Runs |-> "idle"]

\* Labeled.__init__: _label_formats = {}, _label_reverse = {}
EmptyLabels ==
    /\ lprepared = FALSE
    /\ number_of_labels = None
    /\ label_formats = [f \in Formats |-> NoTable]
    /\ label_reverse = [f \in Formats |-> NoTable]
    /\ formats_attr = "unset"

\* the attributes of an instance after its __init__
FreshInstance ==
    /\ capture = "None"
    /\ frame = "None"
    /\ metadata = "None"
    /\ index = None
    /\ item = NoItem
    /\ loop_stop_event = TRUE
    /\ busy = "False"
    /\ wpc = [w \in Workers |-> "idle"]
    /\ wcall = [w \in Workers |-> "None"]
    /\ wdue = [w \in Workers |-> FALSE]
    /\ delivered = << >>
    /\ calls = << >>
    /\ handed = None
    /\ op = Op("__init__", "ok", "None")

\* Datasource.__init__, Labeled/Loop/Snapshot.__init__, DataWebcam.__init__
Init ==
    /\ EmptyRegistry
    /\ EmptyLabels
    /\ NoController
    /\ cls \in Classes
    /\ platform \in Platforms
    /\ length \in 1..MaxLen
    /\ snapshot_impl \in BOOLEAN
    /\ (cls = "DataWebcam") => (length = 1 /\ snapshot_impl = FALSE)
    /\ (cls = "Indexed") => (platform = "other")
    /\ FreshInstance

\* --------------------------------------------------------------- accessors
\* DataWebcam.prepared; the Indexed source keeps Datasource.prepared
prepared == IF cls = "DataWebcam" THEN capture # "None" ELSE TRUE

\* DataWebcam.fetched
fetched == frame # "None"

\* Loop.looping
looping == ~loop_stop_event

\* self._metadata = Metadata(...) replaces the object in _metadata: whatever
\* was paired with the old object is not paired with the new one
Unpair(x) == IF x = "paired" THEN "unpaired" ELSE x

\* ------------------------------------------------------------ notification
\* self.change(kinds) outside a scoped operation: one notification carrying
\* the kinds is delivered at once
change(kinds) == << kinds >>

\* a method decorated with @change: the kinds raised while it runs are
\* coalesced and delivered as one notification after the method completes;
\* nothing is delivered when nothing was raised or the method did not complete
scoped_change(raised, ret) == IF ret = "ok" /\ raised # {} THEN << raised >> ELSE << >>

\* a step that is no fetch call
NoFetchCall == calls' = << >> /\ handed' = None

\* ---------------------------------------------------------------- DataWebcam
\* DataWebcam._fetch on capture cap, within a fetch call whose Metadata is
\* paired or not; read_ok is what VideoCapture.read reports, and a capture
\* that has not opened its device reports a failure on every read
DataWebcam_fetch(cap, old, pairing, read_ok) ==
    IF cap = "None" THEN [ret |-> "AttributeError", frame |-> old]
    ELSE IF cap = "unopened" \/ ~read_ok THEN [ret |-> "RuntimeError", frame |-> old]
    ELSE [ret |-> "ok", frame |-> pairing]

\* fetch() that makes no new Metadata for the item it fetches
fetch_NoMetadata(cap, read_ok) ==
    IF cap # "None"
    THEN LET f == DataWebcam_fetch(cap, frame, frame, read_ok)
         IN  [ret |-> f.ret, metadata |-> metadata, frame |-> f.frame,
              wcall |-> wcall,
              raised |-> IF f.ret = "ok" THEN {"data_changed"} ELSE {},
              calls |-> << "_fetch" >>]
    ELSE [ret |-> "ok", metadata |-> metadata, frame |-> frame, wcall |-> wcall,
          raised |-> {}, calls |-> << >>]

\* Datasource.fetch of the DataWebcam on the caller's thread, with the capture
\* being cap: what it leaves in _metadata and _frame, the kinds it raises and
\* how it ends
fetch(cap, read_ok) ==
    IF cap # "None"
    THEN LET f == DataWebcam_fetch(cap, Unpair(frame), "paired", read_ok)
         IN  [ret |-> f.ret, metadata |-> "Metadata", frame |-> f.frame,
              wcall |-> [w \in Workers |-> Unpair(wcall[w])],
              raised |-> IF f.ret = "ok" THEN {"data_changed"} ELSE {},
              calls |-> << "_fetch" >>]
    ELSE [ret |-> "ok", metadata |-> metadata, frame |-> frame, wcall |-> wcall,
          raised |-> {}, calls |-> << >>]

\* cv2.VideoCapture(self._device): the object it returns has opened the
\* device or has failed to open it
Allocations == {"opened", "unopened"}

\* `not self._capture` in _prepare_data: a VideoCapture object defines neither
\* __bool__ nor __len__, so it counts as true whether or not it has opened
\* its device
not_capture(cap) == cap = "None"

\* the notifications of prepare() as they would be without the decorator:
\* every self.change is delivered at once
prepare_change_PerRaise(raised, ret) ==
    (IF "data_changed" \in raised THEN change({"data_changed"}) ELSE << >>)
        \o (IF "state_changed" \in raised THEN change({"state_changed"}) ELSE << >>)

\* prepare is decorated with @change
prepare_change(raised, ret) == scoped_change(raised, ret)

\* the body of prepare() under `if not self.prepared:` with
\* DataWebcam._prepare_data: self._capture is assigned before it is tested
prepare_body ==
    \E alloc \in Allocations : \E read_ok \in BOOLEAN :
        /\ capture' = alloc
        /\ IF not_capture(alloc)
           THEN /\ UNCHANGED <<metadata, frame, wcall>>
                /\ calls' = << "_prepare_data" >>
                /\ delivered' = prepare_change({}, "RuntimeError")
                /\ op' = Op("prepare", "RuntimeError", "None")
           ELSE LET f == fetch(alloc, read_ok)
                    raised == IF f.ret = "ok" THEN f.raised \cup {"state_changed"}
                                              ELSE f.raised
                IN  /\ metadata' = f.metadata
                    /\ frame' = f.frame
                    /\ wcall' = f.wcall
                    /\ calls' = << "_prepare_data" >> \o f.calls
                    /\ delivered' = prepare_change(raised, f.ret)
                    /\ op' = Op("prepare", f.ret, "None")

\* prepare() without the test of self.prepared
Prepare_Unguarded ==
    /\ cls = "DataWebcam"
    /\ prepare_body
    /\ handed' = None
    /\ UNCHANGED <<cfgVars, ctlVars, regVars, labelVars, idxVars, loopVars, wpc, wdue>>

\* Datasource.prepare with DataWebcam._prepare_data
Prepare ==
    /\ cls = "DataWebcam"
    /\ IF ~prepared
       THEN prepare_body
       ELSE /\ UNCHANGED <<dataVars, wcall>>
            /\ calls' = << >>
            /\ delivered' = prepare_change({}, "ok")
            /\ op' = Op("prepare", "ok", "None")
    /\ handed' = None
    /\ UNCHANGED <<cfgVars, ctlVars, regVars, labelVars, idxVars, loopVars, wpc, wdue>>

\* unprepare() whose _unprepare_data forgets self._frame = None
Unprepare_KeepFrame ==
    /\ cls = "DataWebcam"
    /\ IF prepared
       THEN /\ capture' = "None"
            /\ UNCHANGED <<frame, metadata>>
            /\ calls' = << "_unprepare_data" >>
            /\ delivered' = change({"state_changed", "data_changed"})
       ELSE /\ UNCHANGED dataVars
            /\ calls' = << >>
            /\ delivered' = << >>
    /\ op' = Op("unprepare", "ok", "None")
    /\ handed' = None
    /\ UNCHANGED <<cfgVars, ctlVars, regVars, labelVars, idxVars, loopVars, workerVars>>

\* Datasource.unprepare with DataWebcam._unprepare_data
Unprepare ==
    /\ cls = "DataWebcam"
    /\ IF prepared
       THEN /\ capture' = "None"
            /\ frame' = "None"
            /\ UNCHANGED metadata
            /\ calls' = << "_unprepare_data" >>
            /\ delivered' = change({"state_changed", "data_changed"})
       ELSE /\ UNCHANGED dataVars
            /\ calls' = << >>
            /\ delivered' = << >>
    /\ op' = Op("unprepare", "ok", "None")
    /\ handed' = None
    /\ UNCHANGED <<cfgVars, ctlVars, regVars, labelVars, idxVars, loopVars, workerVars>>

\* fetch() called on the DataWebcam by the caller's thread
Fetch ==
    /\ cls = "DataWebcam"
    /\ \E read_ok \in BOOLEAN :
         LET f == fetch(capture, read_ok)
         IN  /\ metadata' = f.metadata
             /\ frame' = f.frame
             /\ wcall' = f.wcall
             /\ calls' = f.calls
             /\ delivered' = IF f.raised = {} THEN << >> ELSE change(f.raised)
             /\ op' = Op("fetch", f.ret, "None")
    /\ handed' = None
    /\ UNCHANGED <<cfgVars, ctlVars, regVars, labelVars, capture, idxVars, loopVars, wpc, wdue>>

\* fetch_snapshot() called on the DataWebcam by the caller's thread:
\* self.fetch(snapshot=True).  Datasource.fetch hands the argument to
\* self._fetch, which for this class is DataWebcam._fetch(self, **kwargs): it
\* overrides Snapshot._fetch, leaves snapshot unread in kwargs and reads one
\* frame, so DataWebcam._fetch_snapshot is not entered
FetchSnapshot ==
    /\ cls = "DataWebcam"
    /\ \E read_ok \in BOOLEAN :
         LET f == fetch(capture, read_ok)
         IN  /\ metadata' = f.metadata
             /\ frame' = f.frame
             /\ wcall' = f.wcall
             /\ calls' = f.calls
             /\ delivered' = IF f.raised = {} THEN << >> ELSE change(f.raised)
             /\ op' = Op("fetch_snapshot", f.ret, "None")
    /\ handed' = None
    /\ UNCHANGED <<cfgVars, ctlVars, regVars, labelVars, capture, idxVars, loopVars, wpc, wdue>>

\* the data property without the test of self.fetched
data_Unchecked == Op("data", "ok", frame)

\* the data property: Datasource.data with DataWebcam.fetched and _get_data
data == IF ~fetched THEN Op("data", "RuntimeError", "None") ELSE Op("data", "ok", frame)

\* a read of the data property by the caller
ReadData ==
    /\ cls = "DataWebcam"
    /\ op' = data
    /\ delivered' = << >>
    /\ NoFetchCall
    /\ UNCHANGED <<cfgVars, ctlVars, regVars, labelVars, dataVars, idxVars, loopVars, workerVars>>

\* Datasource.metadata: the message of its RuntimeError is an f-string that
\* reads self.__class__.__name, which inside the class body stands for
\* self.__class__._Datasource__name, an attribute no class has; the
\* AttributeError of that read is raised in the place of the RuntimeError
metadata_property ==
    IF ~fetched THEN Op("metadata", "AttributeError", "None")
    ELSE Op("metadata", "ok", metadata)

\* a read of the metadata property by the caller
ReadMetadata ==
    /\ cls = "DataWebcam"
    /\ op' = metadata_property
    /\ delivered' = << >>
    /\ NoFetchCall
    /\ UNCHANGED <<cfgVars, ctlVars, regVars, labelVars, dataVars, idxVars, loopVars, workerVars>>

\* ---------------------------------------------------------------------- Loop
\* start_loop() that does not mark the source busy
start_loop_NoBusy ==
    IF loop_stop_event
    THEN loop_stop_event' = FALSE /\ UNCHANGED busy
    ELSE UNCHANGED loopVars

\* Loop.start_loop: the assignments of the method
start_loop ==
    IF loop_stop_event
    THEN loop_stop_event' = FALSE /\ busy' = "Looping"
    ELSE UNCHANGED loopVars

\* the caller of start_loop runs run_loop(self) on a thread of its own for
\* every start_loop() that moved the loop from Stopped to Running; on linux
\* last_time is 0 when DataWebcam.run_loop begins
LaunchWorker ==
    IF loop_stop_event
    THEN \E w \in Workers :
           /\ wpc[w] = "idle"
           /\ \A v \in Workers : v < w => wpc[v] # "idle"
           /\ wpc' = [wpc EXCEPT ![w] = "loop"]
           /\ wdue' = [wdue EXCEPT ![w] = (platform = "linux")]
           /\ UNCHANGED wcall
    ELSE UNCHANGED workerVars

StartLoop ==
    /\ cls = "DataWebcam"
    /\ start_loop
    /\ LaunchWorker
    /\ op' = Op("start_loop", "ok", "None")
    /\ delivered' = << >>
    /\ NoFetchCall
    /\ UNCHANGED <<cfgVars, ctlVars, regVars, labelVars, dataVars, idxVars>>

\* Loop.stop_loop
StopLoop ==
    /\ cls = "DataWebcam"
    /\ IF ~loop_stop_event
       THEN loop_stop_event' = TRUE /\ busy' = "False"
       ELSE UNCHANGED loopVars
    /\ op' = Op("stop_loop", "ok", "None")
    /\ delivered' = << >>
    /\ NoFetchCall
    /\ UNCHANGED <<cfgVars, ctlVars, regVars, labelVars, dataVars, idxVars, workerVars>>

\* ----------------------------------------------------------- run_loop worker
\* what a step of a worker thread leaves in the record of the last step
WorkerStep(ret, notifications) ==
    /\ op' = Op("run_loop", ret, "None")
    /\ delivered' = notifications
    /\ NoFetchCall

\* the worker leaves run_loop (the loop ended, or an exception left it)
WorkerExit(w) ==
    /\ wpc' = [wpc EXCEPT ![w] = "idle"]
    /\ wcall' = [wcall EXCEPT ![w] = "None"]
    /\ wdue' = [wdue EXCEPT ![w] = FALSE]

\* where run_loop continues after self.fetch() returned: DataWebcam.run_loop
\* tests the stop event next, Loop.run_loop computes sleep_time and waits
\* when it is positive
AfterFetch(w) ==
    IF platform = "linux" THEN "loop"
    ELSE IF wdue[w] THEN "loop" ELSE "wait"

\* run_loop with `while True:` in the place of the test of the stop event
WLoop_NoStopTest(w) ==
    /\ wpc[w] = "loop"
    /\ IF platform = "linux" /\ ~wdue[w]
       THEN wpc' = [wpc EXCEPT ![w] = "ignore"] /\ UNCHANGED <<wcall, wdue>>
       ELSE /\ wpc' = [wpc EXCEPT ![w] = "fetch"]
            /\ wdue' = [wdue EXCEPT ![w] = FALSE]
            /\ UNCHANGED wcall
    /\ WorkerStep("ok", << >>)
    /\ UNCHANGED <<cfgVars, ctlVars, regVars, labelVars, dataVars, idxVars, loopVars>>

\* the while condition; then last_time = time.time(), which on linux
\* happens only when the interval has passed
WLoop(w) ==
    /\ wpc[w] = "loop"
    /\ IF loop_stop_event
       THEN WorkerExit(w)
       ELSE IF platform = "linux" /\ ~wdue[w]
            THEN wpc' = [wpc EXCEPT ![w] = "ignore"] /\ UNCHANGED <<wcall, wdue>>
            ELSE /\ wpc' = [wpc EXCEPT ![w] = "fetch"]
                 /\ wdue' = [wdue EXCEPT ![w] = FALSE]
                 /\ UNCHANGED wcall
    /\ WorkerStep("ok", << >>)
    /\ UNCHANGED <<cfgVars, ctlVars, regVars, labelVars, dataVars, idxVars, loopVars>>

\* Datasource.fetch on the worker: the prepared test and the new Metadata
WFetch(w) ==
    /\ wpc[w] = "fetch"
    /\ IF prepared
       THEN /\ metadata' = "Metadata"
            /\ frame' = Unpair(frame)
            /\ wcall' = [v \in Workers |-> IF v = w THEN "paired" ELSE Unpair(wcall[v])]
            /\ wpc' = [wpc EXCEPT ![w] = "read"]
       ELSE /\ UNCHANGED <<metadata, frame, wcall>>
            /\ wpc' = [wpc EXCEPT ![w] = AfterFetch(w)]
    /\ WorkerStep("ok", << >>)
    /\ UNCHANGED <<cfgVars, ctlVars, regVars, labelVars, capture, idxVars, loopVars, wdue>>

\* run_loop that catches the exception of its fetch and stops the loop
WRead_StopOnError(w) ==
    /\ wpc[w] = "read"
    /\ \E read_ok \in BOOLEAN :
         LET f == DataWebcam_fetch(capture, frame, wcall[w], read_ok)
         IN  IF f.ret = "ok"
             THEN /\ wpc' = [wpc EXCEPT ![w] = "assign"]
                  /\ UNCHANGED <<wcall, wdue, loopVars>>
                  /\ WorkerStep("ok", << >>)
             ELSE /\ WorkerExit(w)
                  /\ loop_stop_event' = TRUE
                  /\ busy' = "False"
                  /\ WorkerStep(f.ret, << >>)
    /\ UNCHANGED <<cfgVars, ctlVars, regVars, labelVars, dataVars, idxVars>>

\* DataWebcam._fetch on the worker: ret, frame = self._capture.read()
WRead(w) ==
    /\ wpc[w] = "read"
    /\ \E read_ok \in BOOLEAN :
         LET f == DataWebcam_fetch(capture, frame, wcall[w], read_ok)
         IN  IF f.ret = "ok"
             THEN /\ wpc' = [wpc EXCEPT ![w] = "assign"]
                  /\ UNCHANGED <<wcall, wdue>>
                  /\ WorkerStep("ok", << >>)
             ELSE /\ WorkerExit(w)
                  /\ WorkerStep(f.ret, << >>)
    /\ UNCHANGED <<cfgVars, ctlVars, regVars, labelVars, dataVars, idxVars, loopVars>>

\* the worker's fetch ends: self._frame = frame[:,:,::-1] in DataWebcam._fetch,
\* then self.change('data_changed') in Datasource.fetch
WAssign(w) ==
    /\ wpc[w] = "assign"
    /\ frame' = wcall[w]
    /\ wpc' = [wpc EXCEPT ![w] = AfterFetch(w)]
    /\ wcall' = [wcall EXCEPT ![w] = "None"]
    /\ WorkerStep("ok", change({"data_changed"}))
    /\ UNCHANGED <<cfgVars, ctlVars, regVars, labelVars, capture, metadata, idxVars, loopVars, wdue>>

\* time.sleep(sleep_time) in the place of Event.wait
wait_Sleep(w) == wdue[w]

\* Event.wait(timeout) returns when the event is set or the timeout is over
wait(w) == loop_stop_event \/ wdue[w]

\* Loop.run_loop: self._loop_stop_event.wait(timeout=sleep_time)
WWait(w) ==
    /\ wpc[w] = "wait"
    /\ wait(w)
    /\ wpc' = [wpc EXCEPT ![w] = "loop"]
    /\ WorkerStep("ok", << >>)
    /\ UNCHANGED <<cfgVars, ctlVars, regVars, labelVars, dataVars, idxVars, loopVars, wcall, wdue>>

\* DataWebcam.run_loop on linux: read a frame and ignore it
WIgnore(w) ==
    /\ wpc[w] = "ignore"
    /\ IF capture = "None"
       THEN WorkerExit(w) /\ WorkerStep("AttributeError", << >>)
       ELSE /\ wpc' = [wpc EXCEPT ![w] = "loop"]
            /\ UNCHANGED <<wcall, wdue>>
            /\ WorkerStep("ok", << >>)
    /\ UNCHANGED <<cfgVars, ctlVars, regVars, labelVars, dataVars, idxVars, loopVars>>

Worker(w) ==
    \/ WLoop(w)
    \/ WFetch(w)
    \/ WRead(w)
    \/ WAssign(w)
    \/ WWait(w)
    \/ WIgnore(w)

\* time.time() passes a running worker's last_time + self._loop_interval
Elapse ==
    /\ \E w \in Workers :
         /\ wpc[w] # "idle"
         /\ ~wdue[w]
         /\ wdue' = [wdue EXCEPT ![w] = TRUE]
    /\ op' = Op("time", "ok", "None")
    /\ delivered' = << >>
    /\ NoFetchCall
    /\ UNCHANGED <<cfgVars, ctlVars, regVars, labelVars, dataVars, idxVars, loopVars, wpc, wcall>>

\* ------------------------------------------------------------------- Indexed
\* A fetch strategy yields: how it ended, the strategies and primitives it
\* entered (in order), the index it handed to _fetch_index, and the index
\* and item it leaves.
Selectors ==
    [index : {None} \cup (0..(length - 1)), random : BOOLEAN, snapshot : BOOLEAN]

NoSelector == [index |-> None, random |-> FALSE, snapshot |-> FALSE]

Raise(error, entered, i) ==
    [ret |-> error, calls |-> entered, handed |-> i, index |-> index, item |-> item]

\* the backend's _fetch_index(index): loads element index, and fails with an
\* IndexError when index is outside [0, len(self))
fetch_index_primitive(i, entered) ==
    LET e == Append(entered, "_fetch_index")
    IN  IF i >= 0 /\ i < length
        THEN [ret |-> "ok", calls |-> e, handed |-> i, index |-> i, item |-> Element(i)]
        ELSE Raise("IndexError", e, i)

\* the backend's _get_index() and its _index attribute
get_index == index

\* Python's (x or 0)
OrZero(x) == IF x = None \/ x = 0 THEN 0 ELSE x

\* _fetch_random that counts the drawn value from 1, as random.randint(1, len(self))
Indexed_fetch_random_FromOne(r, entered) ==
    fetch_index_primitive(r + 1, Append(entered, "_fetch_random"))

\* Indexed._fetch_random: r is the value of random.randrange(len(self))
Indexed_fetch_random(r, entered) ==
    fetch_index_primitive(r, Append(entered, "_fetch_random"))

\* Indexed._fetch_default
Indexed_fetch_default(entered) ==
    LET current_index == OrZero(get_index)
        next_index == IF current_index < length THEN current_index + 1 ELSE 0
    IN  fetch_index_primitive(next_index, Append(entered, "_fetch_default"))

\* Datasource._fetch_default
Datasource_fetch_default(entered) == Raise("NotImplementedError", entered, None)

\* Snapshot._fetch_snapshot: super() of Snapshot in the order (Indexed,
\* Random, Snapshot, Datasource) is Datasource
Snapshot_fetch_snapshot(entered) == Datasource_fetch_default(entered)

\* a backend's own _fetch_snapshot: it stores a snapshot as the current item
backend_fetch_snapshot(entered) ==
    [ret |-> "ok", calls |-> entered, handed |-> None, index |-> index, item |-> SnapshotItem]

\* self._fetch_snapshot(): the backend's method when it has one
fetch_snapshot(entered) ==
    IF snapshot_impl
    THEN backend_fetch_snapshot(Append(entered, "_fetch_snapshot"))
    ELSE Snapshot_fetch_snapshot(Append(entered, "_fetch_snapshot"))

\* Datasource._fetch: self._fetch_default is Indexed._fetch_default
Datasource_fetch(entered) == Indexed_fetch_default(entered)

\* Snapshot._fetch
Snapshot_fetch(sel, entered) ==
    IF sel.snapshot THEN fetch_snapshot(entered) ELSE Datasource_fetch(entered)

\* Random._fetch
Random_fetch(sel, r, entered) ==
    IF sel.random THEN Indexed_fetch_random(r, entered) ELSE Snapshot_fetch(sel, entered)

\* Indexed._fetch testing `if index:` in the place of `if index is not None:`
Indexed_fetch_Truthy(sel, r, entered) ==
    IF sel.index # None /\ sel.index # 0
    THEN fetch_index_primitive(sel.index, entered)
    ELSE Random_fetch(sel, r, entered)

\* Indexed._fetch
Indexed_fetch(sel, r, entered) ==
    IF sel.index # None
    THEN fetch_index_primitive(sel.index, entered)
    ELSE Random_fetch(sel, r, entered)

\* Datasource.fetch(**sel) on the Indexed source
IndexedFetch(name, sel, r) ==
    /\ cls = "Indexed"
    /\ prepared
    /\ LET f == Indexed_fetch(sel, r, << >>)
       IN  /\ metadata' = "Metadata"
           /\ index' = f.index
           /\ item' = f.item
           /\ calls' = f.calls
           /\ handed' = f.handed
           /\ delivered' = IF f.ret = "ok" THEN change({"data_changed"}) ELSE << >>
           /\ op' = Op(name, f.ret, "None")
    /\ UNCHANGED <<cfgVars, ctlVars, regVars, labelVars, capture, frame, loopVars, workerVars>>

\* fetch(**selectors)
FetchSelectors ==
    \E sel \in Selectors : \E r \in 0..(length - 1) : IndexedFetch("fetch", sel, r)

\* Random.fetch_random
FetchRandom ==
    \E r \in 0..(length - 1) :
        IndexedFetch("fetch_random", [NoSelector EXCEPT !.random = TRUE], r)

\* Indexed.fetch_next
FetchNext ==
    LET current_index == OrZero(get_index)
        next_index == IF current_index < length THEN current_index + 1 ELSE 0
    IN  IndexedFetch("fetch_next", [NoSelector EXCEPT !.index = next_index], 0)

\* Indexed.fetch_prev
FetchPrev ==
    LET current_index == OrZero(get_index)
        next_index == IF current_index > 0 THEN current_index - 1 ELSE length
    IN  IndexedFetch("fetch_prev", [NoSelector EXCEPT !.index = next_index], 0)

\* Indexed.fetch_first
FetchFirst == IndexedFetch("fetch_first", [NoSelector EXCEPT !.index = 0], 0)

\* fetch_last() that takes len(self) for the last index
FetchLast_Len == IndexedFetch("fetch_last", [NoSelector EXCEPT !.index = length], 0)

\* Indexed.fetch_last
FetchLast == IndexedFetch("fetch_last", [NoSelector EXCEPT !.index = length - 1], 0)

\* Indexed.fetch_index(index): the argument it passes to self.fetch is the
\* name next_index, which is bound neither in the method nor in the module;
\* evaluating it raises NameError before self.fetch is called
Indexed_fetch_index(i) == Raise("NameError", << >>, None)

\* a call of fetch_index(i) by the caller, under the name of the public method
\* that made it
IndexedFetchIndex(name, i, then) ==
    /\ cls = "Indexed"
    /\ LET f == Indexed_fetch_index(i)
       IN  /\ index' = f.index
           /\ item' = f.item
           /\ calls' = f.calls
           /\ handed' = f.handed
           /\ op' = IF f.ret = "ok" THEN then ELSE Op(name, f.ret, "None")
    /\ delivered' = << >>
    /\ UNCHANGED <<cfgVars, ctlVars, regVars, labelVars, dataVars, loopVars, workerVars>>

\* fetch_index(i)
FetchIndex(i) == IndexedFetchIndex("fetch_index", i, Op("fetch_index", "ok", "None"))

\* Indexed.__getitem__: self.fetch_index(index=index), then
\* return self.get_data(), a method that no class of the module defines
GetItem(i) ==
    IndexedFetchIndex("__getitem__", i, Op("__getitem__", "AttributeError", "None"))

\* ------------------------------------------------------------------- Labeled
\* Labeled.labels_prepared
labels_prepared == number_of_labels # None

\* fetched of the Labeled source: its backend holds a current item
labeled_fetched == item # NoItem

\* the backend's _fetch loads one of its elements; element l has label l
labeled_elements == {Element(l) : l \in 0..(NumLabels - 1)}

\* what a step of the Labeled source leaves alone
LabeledFrame ==
    /\ handed' = None
    /\ UNCHANGED <<cfgVars, ctlVars, regVars, capture, frame, index, loopVars, workerVars>>

\* Labeled.prepare that fetches and raises state_changed whatever it prepared
LabeledPrepare_AlwaysFetch ==
    /\ cls = "Labeled"
    /\ LET data_change == ~lprepared
           labels_change == ~labels_prepared
       IN  /\ lprepared' = TRUE
           /\ number_of_labels' = IF labels_change THEN NumLabels ELSE number_of_labels
           /\ item' \in labeled_elements
           /\ metadata' = "Metadata"
           /\ calls' = (IF data_change THEN << "_prepare_data" >> ELSE << >>)
                          \o (IF labels_change THEN << "_prepare_labels" >> ELSE << >>)
                          \o << "_fetch" >>
           /\ delivered' = scoped_change(
                  (IF labels_change THEN {"labels_changed"} ELSE {})
                      \cup {"data_changed", "state_changed"}, "ok")
    /\ op' = Op("prepare", "ok", NoneLabel)
    /\ UNCHANGED <<label_formats, label_reverse, formats_attr>>
    /\ LabeledFrame

\* Labeled.prepare with prepare_labels and Datasource.fetch; _prepare_data
\* makes the source prepared and _prepare_labels makes number_of_labels known
LabeledPrepare ==
    /\ cls = "Labeled"
    /\ LET data_change == ~lprepared
           labels_change == ~labels_prepared
           changed == data_change \/ labels_change
       IN  /\ lprepared' = (IF data_change THEN TRUE ELSE lprepared)
           /\ number_of_labels' = IF labels_change THEN NumLabels ELSE number_of_labels
           /\ IF changed
              THEN item' \in labeled_elements /\ metadata' = "Metadata"
              ELSE UNCHANGED <<item, metadata>>
           /\ calls' = (IF data_change THEN << "_prepare_data" >> ELSE << >>)
                          \o (IF labels_change THEN << "_prepare_labels" >> ELSE << >>)
                          \o (IF changed THEN << "_fetch" >> ELSE << >>)
           /\ delivered' = scoped_change(
                  (IF labels_change THEN {"labels_changed"} ELSE {})
                      \cup (IF changed THEN {"data_changed", "state_changed"} ELSE {}),
                  "ok")
    /\ op' = Op("prepare", "ok", NoneLabel)
    /\ UNCHANGED <<label_formats, label_reverse, formats_attr>>
    /\ LabeledFrame

\* Labeled.prepare_labels called by the caller
PrepareLabels ==
    /\ cls = "Labeled"
    /\ IF ~labels_prepared
       THEN /\ number_of_labels' = NumLabels
            /\ calls' = << "_prepare_labels" >>
            /\ delivered' = change({"labels_changed"})
       ELSE /\ UNCHANGED number_of_labels
            /\ calls' = << >>
            /\ delivered' = << >>
    /\ op' = Op("prepare_labels", "ok", NoneLabel)
    /\ UNCHANGED <<lprepared, item, metadata, label_formats, label_reverse, formats_attr>>
    /\ LabeledFrame

\* Labeled.unprepare_labels: what it assigns and what it raises
unprepare_labels ==
    IF labels_prepared
    THEN [formats_attr |-> "{}", raised |-> {"labels_changed"}]
    ELSE [formats_attr |-> formats_attr, raised |-> {}]

\* Labeled.unprepare_labels called by the caller
UnprepareLabels ==
    /\ cls = "Labeled"
    /\ formats_attr' = unprepare_labels.formats_attr
    /\ delivered' = IF unprepare_labels.raised = {} THEN << >>
                    ELSE change(unprepare_labels.raised)
    /\ calls' = << >>
    /\ op' = Op("unprepare_labels", "ok", NoneLabel)
    /\ UNCHANGED <<lprepared, number_of_labels, item, metadata, label_formats, label_reverse>>
    /\ LabeledFrame

\* Labeled.unprepare: Datasource.unprepare, then unprepare_labels; the
\* backend's _unprepare_data releases the data and the current item
LabeledUnprepare ==
    /\ cls = "Labeled"
    /\ IF lprepared
       THEN /\ lprepared' = FALSE
            /\ item' = NoItem
            /\ calls' = << "_unprepare_data" >>
       ELSE /\ UNCHANGED <<lprepared, item>>
            /\ calls' = << >>
    /\ formats_attr' = unprepare_labels.formats_attr
    /\ delivered' = scoped_change(
           (IF lprepared THEN {"state_changed", "data_changed"} ELSE {})
               \cup unprepare_labels.raised, "ok")
    /\ op' = Op("unprepare", "ok", NoneLabel)
    /\ UNCHANGED <<number_of_labels, metadata, label_formats, label_reverse>>
    /\ LabeledFrame

\* Datasource.fetch on the Labeled source
LabeledFetch ==
    /\ cls = "Labeled"
    /\ IF lprepared
       THEN /\ item' \in labeled_elements
            /\ metadata' = "Metadata"
            /\ calls' = << "_fetch" >>
            /\ delivered' = change({"data_changed"})
       ELSE /\ UNCHANGED <<item, metadata>>
            /\ calls' = << >>
            /\ delivered' = << >>
    /\ op' = Op("fetch", "ok", NoneLabel)
    /\ UNCHANGED labelVars
    /\ LabeledFrame

\* forward tables of n entries: a list of texts, or a numpy array that holds
\* the labels 0..n-1 in another numbering
ListTables(n) ==
    {[kind |-> "list", values |-> v, keys |-> NoTable.keys] :
        v \in [1..n -> {StrLabel(t) : t \in Texts}]}

ArrayTables(n) ==
    {[kind |-> "ndarray", values |-> [i \in 1..n |-> IntLabel(p[i])],
      keys |-> NoTable.keys] :
        p \in {q \in [1..n -> 0..(n - 1)] : \A i, j \in 1..n : i # j => q[i] # q[j]}}

\* lists of one text repeated, one entry too long
LongTables ==
    {[kind |-> "list", values |-> [i \in 1..(NumLabels + 1) |-> StrLabel(t)],
      keys |-> NoTable.keys] : t \in Texts}

\* the tables a caller passes to add_label_format: of the right length, one
\* entry short and one entry long
InputTables ==
    ListTables(NumLabels) \cup ArrayTables(NumLabels)
        \cup ListTables(NumLabels - 1) \cup LongTables

\* len(formated_labels)
len(table) == Len(table.values)

\* add_label_format that stores the table before it compares the lengths
add_label_format_StoreFirst(format, formated_labels) ==
    [ret |-> IF number_of_labels # len(formated_labels) THEN "ValueError" ELSE "ok",
     label_formats |-> [label_formats EXCEPT ![format] = formated_labels]]

\* add_label_format without the comparison of the lengths
add_label_format_Unchecked(format, formated_labels) ==
    [ret |-> "ok",
     label_formats |-> [label_formats EXCEPT ![format] = formated_labels]]

\* Labeled.add_label_format: how it ends and the mapping it leaves
add_label_format(format, formated_labels) ==
    IF number_of_labels # len(formated_labels)
    THEN [ret |-> "ValueError", label_formats |-> label_formats]
    ELSE [ret |-> "ok",
          label_formats |-> [label_formats EXCEPT ![format] = formated_labels]]

\* a call of add_label_format(format, formated_labels) by the caller
AddLabelFormat(format, formated_labels) ==
    /\ cls = "Labeled"
    /\ LET r == add_label_format(format, formated_labels)
       IN  /\ label_formats' = r.label_formats
           /\ op' = Op("add_label_format", r.ret, NoneLabel)
    /\ calls' = << >>
    /\ delivered' = << >>
    /\ UNCHANGED <<lprepared, number_of_labels, item, metadata, label_reverse, formats_attr>>
    /\ LabeledFrame

\* the arguments format and origin of format_labels: None, a name that can
\* be registered, and a name that never is
NoFormat == "None"

FormatArgs == {NoFormat, "bogus"} \cup Formats

\* format in self._label_formats
registered(format) == format \in Formats /\ label_formats[format] # NoTable

\* the labels a caller passes: None, an int, a str, or a list of one of them
ScalarLabels ==
    {IntLabel(k) : k \in 0..(NumLabels - 1)} \cup {StrLabel(t) : t \in Texts}

LabelInputs == {NoneLabel} \cup ScalarLabels \cup {Batch(<< a >>) : a \in ScalarLabels}

\* the result of a lookup or of a call: how it ended and its value
Ok(val) == [ret |-> "ok", val |-> val]

Failed(error) == [ret |-> error, val |-> NoneLabel]

\* { v: i for i, v in enumerate(table) }: a text is mapped to the last place
\* at which the list holds it
dict_reverse(table) ==
    [kind |-> "dict", values |-> << >>,
     keys |-> [t \in Texts |->
                 LET places == {i \in DOMAIN table.values : table.values[i].s = t}
                 IN  IF places = {} THEN None
                     ELSE (CHOOSE i \in places : \A j \in places : j <= i) - 1]]

\* np.argsort(table): an order of the places that sorts the entries; the
\* default sort of numpy is not stable, entries that are equal may come in
\* either order
argsort(table) ==
    LET n == Len(table.values)
        orders == {p \in [1..n -> 0..(n - 1)] :
                     /\ \A i, j \in 1..n : i # j => p[i] # p[j]
                     /\ \A i \in 1..(n - 1) :
                           table.values[p[i] + 1].n <= table.values[p[i + 1] + 1].n}
    IN  {[kind |-> "ndarray", values |-> [i \in 1..n |-> IntLabel(p[i])],
          keys |-> NoTable.keys] : p \in orders}

\* the reverse tables that format_labels can build for a forward table
Reverses(table) ==
    IF table.kind = "ndarray" THEN argsort(table) ELSE {dict_reverse(table)}

\* table[label] for a dict, a numpy array and a list
dict_get(table, label) ==
    IF label.kind = "str" /\ table.keys[label.s] # None
    THEN Ok(IntLabel(table.keys[label.s]))
    ELSE Failed("KeyError")

array_get(table, label) ==
    IF label.kind = "int" /\ label.n < Len(table.values)
    THEN Ok(table.values[label.n + 1])
    ELSE Failed("IndexError")

list_get(table, label) ==
    IF label.kind # "int" THEN Failed("TypeError")
    ELSE IF label.n < Len(table.values) THEN Ok(table.values[label.n + 1])
    ELSE Failed("IndexError")

\* table[label] by the kind of the table
table_get(table, label) ==
    IF table.kind = "dict" THEN dict_get(table, label)
    ELSE IF table.kind = "ndarray" THEN array_get(table, label)
    ELSE list_get(table, label)

\* the translation of labels through a table: of a single int or str, or of
\* every member of a sequence, the first failure ending it
translate(table, labels) ==
    IF labels.kind # "seq" THEN table_get(table, labels)
    ELSE LET rs == [i \in DOMAIN labels.items |-> table_get(table, labels.items[i])]
             bad == {i \in DOMAIN rs : rs[i].ret # "ok"}
         IN  IF bad = {} THEN Ok(Batch([i \in DOMAIN rs |-> rs[i].val]))
             ELSE Failed(rs[CHOOSE i \in bad : \A j \in bad : i <= j].ret)

\* step 2 of format_labels: internal labels into the target format
format_step2(labels, format) ==
    IF format = NoFormat THEN Ok(labels)
    ELSE IF registered(format) THEN translate(label_formats[format], labels)
    ELSE Failed("ValueError")

\* Labeled.format_labels: how it ends, its value and the reverse tables it
\* leaves; built is the reverse table it makes when it has to make one
format_labels(labels, format, origin, built) ==
    IF labels = NoneLabel THEN [ret |-> "ok", val |-> NoneLabel, label_reverse |-> label_reverse]
    ELSE IF origin = NoFormat
    THEN LET r == format_step2(labels, format)
         IN  [ret |-> r.ret, val |-> r.val, label_reverse |-> label_reverse]
    ELSE IF ~registered(origin)
    THEN [ret |-> "ValueError", val |-> NoneLabel, label_reverse |-> label_reverse]
    ELSE LET reverse_table == IF label_reverse[origin] = NoTable
                              THEN built ELSE label_reverse[origin]
             reverse == [label_reverse EXCEPT ![origin] = reverse_table]
             internal == translate(reverse_table, labels)
             r == IF internal.ret = "ok" THEN format_step2(internal.val, format)
                  ELSE internal
         IN  [ret |-> r.ret, val |-> r.val, label_reverse |-> reverse]

\* the reverse tables a call of format_labels can build
Buildable(origin) ==
    IF registered(origin) /\ label_reverse[origin] = NoTable
    THEN Reverses(label_formats[origin]) ELSE {NoTable}

\* a call of format_labels(labels, format, origin) by the caller
FormatLabels(labels, format, origin) ==
    /\ cls = "Labeled"
    /\ \E built \in Buildable(origin) :
         LET r == format_labels(labels, format, origin, built)
         IN  /\ label_reverse' = r.label_reverse
             /\ op' = Op("format_labels", r.ret, r.val)
             /\ calls' = IF r.label_reverse # label_reverse
                         THEN << "reverse_table" >> ELSE << >>
    /\ delivered' = << >>
    /\ UNCHANGED <<lprepared, number_of_labels, item, metadata, label_formats, formats_attr>>
    /\ LabeledFrame

\* the backend's _get_label: the numeric label of the current item
backend_get_label == IntLabel(item.index)

\* Labeled.get_label: a format that is not None sends the label to
\* self.format_label, a method that no class defines
get_label(format) ==
    IF ~labels_prepared THEN Failed("RuntimeError")
    ELSE IF ~labeled_fetched THEN Failed("RuntimeError")
    ELSE IF format = NoFormat THEN Ok(backend_get_label)
    ELSE Failed("AttributeError")

\* a call of get_label(format) by the caller
GetLabel(format) ==
    /\ cls = "Labeled"
    /\ op' = Op("get_label", get_label(format).ret, get_label(format).val)
    /\ calls' = IF labels_prepared /\ labeled_fetched THEN << "_get_label" >> ELSE << >>
    /\ delivered' = << >>
    /\ UNCHANGED <<labelVars, item, metadata>>
    /\ LabeledFrame

\* the labels a caller passes to one_hot_for_labels: an int or a list of two
OneHotInputs ==
    {IntLabel(k) : k \in 0..(NumLabels - 1)}
       \cup {Batch(<< IntLabel(a), IntLabel(b) >>) : a, b \in 0..(NumLabels - 1)}

\* a row of np.zeros(...) of n entries, and one that was assigned 1 as a whole
zeros(n) == Batch([j \in 1..n |-> IntLabel(0)])

ones(n) == Batch([j \in 1..n |-> IntLabel(1)])

\* the else branch of one_hot_for_labels for a sequence of labels:
\* output[label] = 1 assigns 1 to the whole row numbered label
one_hot_rows(labels) ==
    LET rows == Len(labels.items)
        bad == {i \in 1..rows : labels.items[i].kind # "int" \/ labels.items[i].n >= rows}
    IN  IF number_of_labels = None THEN Failed("TypeError")
        ELSE IF bad # {} THEN Failed("IndexError")
        ELSE Ok(Batch([r \in 1..rows |->
                         IF \E i \in 1..rows : labels.items[i].n = r - 1
                         THEN ones(number_of_labels) ELSE zeros(number_of_labels)]))

\* np.zeros(self.number_of_labels) of the branch for a single int, followed
\* by output[label] = 1 with a name that is bound in the other branch only.
\* With number_of_labels None, numpy raises TypeError or takes None for the
\* shape (), by its version
one_hot_vector ==
    IF number_of_labels = None
    THEN {Failed("TypeError"), Failed("UnboundLocalError")}
    ELSE {Failed("UnboundLocalError")}

\* Labeled.one_hot_for_labels: the ways in which it can end. A label
\* translated through a numpy table is a numpy integer, which is not an int
one_hot_for_labels(labels, format) ==
    LET formatted == IF format = NoFormat THEN Ok(labels)
                     ELSE format_step2(labels, format)
        translated == format # NoFormat /\ registered(format)
        numpy_int == translated /\ label_formats[format].kind = "ndarray"
    IN  IF formatted.ret # "ok" THEN {formatted}
        ELSE IF formatted.val.kind = "int" /\ ~numpy_int THEN one_hot_vector
        ELSE IF formatted.val.kind = "int" THEN {Failed("TypeError")}
        ELSE IF formatted.val.kind = "str"
        THEN IF number_of_labels = None THEN {Failed("TypeError")}
             ELSE {Failed("IndexError")}
        ELSE {one_hot_rows(formatted.val)}

\* a call of one_hot_for_labels(labels, format) by the caller
OneHot(labels, format) ==
    /\ cls = "Labeled"
    /\ \E r \in one_hot_for_labels(labels, format) :
          op' = Op("one_hot_for_labels", r.ret, r.val)
    /\ calls' = << >>
    /\ delivered' = << >>
    /\ UNCHANGED <<labelVars, item, metadata>>
    /\ LabeledFrame

\* ------------------------------------------------------------------ registry
\* the id argument of a construction that passes none
NoId == <<"None", None>>

\* len(self._item_lookup_table)
registry_size == Cardinality({i \in Ids : item_lookup_table[i] # 0})

\* Datasource.__init__(id): the id of the new instance and its entry in the
\* table of instances
Datasource_init(id_arg) ==
    /\ Len(instance_ids) < MaxInstances
    /\ LET id == IF id_arg = NoId THEN <<"Datasource", registry_size>> ELSE id_arg
       IN  /\ instance_ids' = Append(instance_ids, id)
           /\ item_lookup_table' =
                  [item_lookup_table EXCEPT ![id] = Len(instance_ids) + 1]
    /\ op' = Op("__init__", "ok", "None")
    /\ delivered' = << >>
    /\ NoFetchCall
    /\ UNCHANGED <<cfgVars, ctlVars, labelVars, dataVars, idxVars, loopVars, workerVars>>

\* Datasource(id=...) and Datasource()
ConstructDatasource == \E id_arg \in Ids \cup {NoId} : Datasource_init(id_arg)

\* DataWebcam(): its id parameter defaults to "Webcam"
ConstructWebcam == Datasource_init(<<"Webcam", None>>)

RegistryInit ==
    /\ EmptyRegistry
    /\ EmptyLabels
    /\ NoController
    /\ cls = "Datasource"
    /\ platform = "other"
    /\ length = 1
    /\ snapshot_impl = FALSE
    /\ FreshInstance

RegistryNext ==
    \/ ConstructDatasource
    \/ ConstructWebcam

RegistrySpec == RegistryInit /\ [][RegistryNext]_vars

LabeledInit ==
    /\ EmptyRegistry
    /\ EmptyLabels
    /\ NoController
    /\ cls = "Labeled"
    /\ platform = "other"
    /\ length = 1
    /\ snapshot_impl = FALSE
    /\ FreshInstance

LabeledNext ==
    \/ LabeledPrepare
    \/ PrepareLabels
    \/ UnprepareLabels
    \/ LabeledUnprepare
    \/ LabeledFetch
    \/ \E format \in Formats : \E t \in InputTables : AddLabelFormat(format, t)
    \/ \E labels \in LabelInputs : \E format, origin \in FormatArgs :
          FormatLabels(labels, format, origin)
    \/ \E format \in FormatArgs : GetLabel(format)
    \/ \E labels \in OneHotInputs : \E format \in {NoFormat} \cup Formats :
          OneHot(labels, format)

LabeledSpec == LabeledInit /\ [][LabeledNext]_vars

\* ---------------------------------------------------------------- @run
\* the threads that call a decorated method: getName() starts with 'runner'
\* or not, and the attribute GUI_event_loop is true or is missing
Threads == [runner : BOOLEAN, GUI_event_loop : BOOLEAN]

\* the run argument of a call: not passed, or passed as None, True or False
RunArgs == {"absent", "None", "True", "False"}

\* get_default_run(run) on the thread that calls it
get_default_run(run_arg, thread) ==
    IF run_arg # "None" THEN run_arg = "True"
    ELSE IF thread.runner THEN FALSE
    ELSE thread.GUI_event_loop

\* def wrapper(self, *args, run: bool = False, **kwargs): the value of run
\* for a call that passes none is False
wrapper_run(run_arg) == IF run_arg = "absent" THEN "False" ELSE run_arg

\* the wrapper of @run: _executor.submit(function, ...) or function(...)
run_wrapper(run_arg, thread) ==
    IF get_default_run(wrapper_run(run_arg), thread) THEN "submitted" ELSE "synchronous"

\* ---------------------------------------------------- landmarks Controller
\* a run of _process_all begins, on a thread of the executor or on the
\* thread of the caller: the first run that is not in use
StartRun ==
    \E r \in Runs :
       /\ rpc[r] = "idle"
       /\ \A q \in Runs : q < r => rpc[q] # "idle"
       /\ rpc' = [rpc EXCEPT ![r] = "start"]

\* self._process() in process_all: the method of the base Controller, which
\* starts the processing loop _process_all in the background
Controller_process == StartRun

\* what a step of the Controller leaves in the record of the last step
ControllerStep(name, val, notifications) ==
    /\ op' = Op(name, "ok", val)
    /\ delivered' = notifications
    /\ NoFetchCall
    /\ UNCHANGED <<cfgVars, regVars, labelVars, dataVars, idxVars, loopVars, workerVars>>

\* Controller.process_all(data)
ProcessAll(d) ==
    /\ cls = "Controller"
    /\ next_data' = d
    /\ IF ~detector_busy
       THEN Controller_process
       ELSE UNCHANGED rpc
    /\ UNCHANGED <<ctl_data, detections, detector_busy>>
    /\ ControllerStep("process_all", "None", << >>)

\* a call of the decorated method _process_all(run=...) on a thread: the
\* wrapper submits the loop to the executor or runs it on that thread
CallProcessAll(run_arg, thread) ==
    /\ cls = "Controller"
    /\ StartRun
    /\ UNCHANGED <<next_data, ctl_data, detections, detector_busy>>
    /\ ControllerStep("_process_all", run_wrapper(run_arg, thread), << >>)

\* _process_all: self._detector.busy = True
RStart(r) ==
    /\ rpc[r] = "start"
    /\ detector_busy' = TRUE
    /\ rpc' = [rpc EXCEPT ![r] = "test"]
    /\ UNCHANGED <<next_data, ctl_data, detections>>
    /\ ControllerStep("run", "None", << >>)

\* while self._next_data is not None:
RTest(r) ==
    /\ rpc[r] = "test"
    /\ rpc' = [rpc EXCEPT ![r] = IF next_data # None THEN "take" ELSE "finish"]
    /\ UNCHANGED <<next_data, ctl_data, detections, detector_busy>>
    /\ ControllerStep("run", "None", << >>)

\* self._data = self._next_data
RTake(r) ==
    /\ rpc[r] = "take"
    /\ ctl_data' = next_data
    /\ rpc' = [rpc EXCEPT ![r] = "clear"]
    /\ UNCHANGED <<next_data, detections, detector_busy>>
    /\ ControllerStep("run", "None", << >>)

\* self._next_data = None; self._detector.change(data_changed=True)
RClear(r) ==
    /\ rpc[r] = "clear"
    /\ next_data' = None
    /\ rpc' = [rpc EXCEPT ![r] = "detect"]
    /\ UNCHANGED <<ctl_data, detections, detector_busy>>
    /\ ControllerStep("run", "None", change({"data_changed"}))

\* self._detections = self._detector.detect_all(self._data);
\* self._detector.change(detection_finished=True)
RDetect(r) ==
    /\ rpc[r] = "detect"
    /\ detections' = ctl_data
    /\ rpc' = [rpc EXCEPT ![r] = "test"]
    /\ UNCHANGED <<next_data, ctl_data, detector_busy>>
    /\ ControllerStep("run", "None", change({"detection_finished"}))

\* self._detector.busy = False, and the run ends
RFinish(r) ==
    /\ rpc[r] = "finish"
    /\ detector_busy' = FALSE
    /\ rpc' = [rpc EXCEPT ![r] = "idle"]
    /\ UNCHANGED <<next_data, ctl_data, detections>>
    /\ ControllerStep("run", "None", << >>)

Run(r) ==
    \/ RStart(r)
    \/ RTest(r)
    \/ RTake(r)
    \/ RClear(r)
    \/ RDetect(r)
    \/ RFinish(r)

ControllerInit ==
    /\ EmptyRegistry
    /\ EmptyLabels
    /\ NoController
    /\ cls = "Controller"
    /\ platform = "other"
    /\ length = 1
    /\ snapshot_impl = FALSE
    /\ FreshInstance

ControllerNext ==
    \/ \E d \in DataItems : ProcessAll(d)
    \/ \E run_arg \in RunArgs : \E thread \in Threads : CallProcessAll(run_arg, thread)
    \/ \E r \in Runs : Run(r)

ControllerSpec == ControllerInit /\ [][ControllerNext]_vars

\* ---------------------------------------------------------- specifications
Next ==
    \/ Prepare
    \/ Unprepare
    \/ Fetch
    \/ FetchSnapshot
    \/ ReadData
    \/ ReadMetadata
    \/ StartLoop
    \/ StopLoop
    \/ \E w \in Workers : Worker(w)
    \/ Elapse
    \/ FetchSelectors
    \/ FetchRandom
    \/ FetchNext
    \/ FetchPrev
    \/ FetchFirst
    \/ FetchLast
    \/ \E i \in 0..(length - 1) : FetchIndex(i)
    \/ \E i \in 0..(length - 1) : GetItem(i)

Spec == Init /\ [][Next]_vars

\* every worker thread keeps being scheduled; the clock and the caller are
\* under no obligation
FairSpec == Spec /\ \A w \in Workers : WF_vars(Worker(w))

TypeOK ==
    /\ cls \in Classes
    /\ capture \in {"None"} \cup Allocations
    /\ frame \in {"None", "paired", "unpaired"}
    /\ metadata \in {"None", "Metadata"}
    /\ index \in {None} \cup (0..(length - 1))
    /\ loop_stop_event \in BOOLEAN
    /\ busy \in {"False", "Looping"}
    /\ wpc \in [Workers -> {"idle", "loop", "fetch", "read", "assign", "wait", "ignore"}]
    /\ wcall \in [Workers -> {"None", "paired", "unpaired"}]
    /\ wdue \in [Workers -> BOOLEAN]

\* ------------------------------------------------------------------ claims
progVars == <<cfgVars, dataVars, idxVars, loopVars, workerVars, regVars, labelVars, ctlVars>>

Count(seq, x) == Cardinality({k \in DOMAIN seq : seq[k] = x})

\* fetch calls that pass at most one selector
SingleSelectors ==
    {sel \in Selectors :
        Cardinality({k \in {"index", "random", "snapshot"} :
            \/ k = "index" /\ sel.index # None
            \/ k = "random" /\ sel.random
            \/ k = "snapshot" /\ sel.snapshot}) <= 1}

\* C1 as stated: a fetch call with one selector invokes the primitive of that
\* selector's strategy once and the primitives of the other strategies
\* (_fetch_index, _fetch_random, _fetch_snapshot) not at all; fetch() runs the
\* default strategy and neither the random nor the snapshot one.
C1_Claim ==
    [][\A sel \in SingleSelectors : \A r \in 0..(length - 1) :
         IndexedFetch("fetch", sel, r) =>
           /\ (sel.index # None) =>
                /\ Count(calls', "_fetch_index") = 1
                /\ Count(calls', "_fetch_random") = 0
                /\ Count(calls', "_fetch_snapshot") = 0
                /\ item' = Element(sel.index)
           /\ sel.random =>
                /\ Count(calls', "_fetch_random") = 1
                /\ Count(calls', "_fetch_index") = 0
                /\ Count(calls', "_fetch_snapshot") = 0
           /\ sel.snapshot =>
                /\ Count(calls', "_fetch_snapshot") = 1
                /\ Count(calls', "_fetch_index") = 0
                /\ Count(calls', "_fetch_random") = 0
           /\ (sel = NoSelector) =>
                /\ Count(calls', "_fetch_default") = 1
                /\ Count(calls', "_fetch_random") = 0
                /\ Count(calls', "_fetch_snapshot") = 0]_vars

\* C1 amended: on a source composed as (Indexed, Snapshot) every fetch call
\* with at most one selector enters exactly one strategy: fetch(index=i) calls
\* only _fetch_index(i) and the slot then holds element i; fetch(random=True)
\* enters only Indexed._fetch_random, which loads the drawn index r through one
\* call of _fetch_index(r); fetch(snapshot=True) enters only _fetch_snapshot;
\* fetch() enters only Indexed._fetch_default, which loads its next index
\* through one call of _fetch_index.
C1_Dispatch ==
    [][(cls = "Indexed" /\ op'.name = "fetch") =>
         \A sel \in SingleSelectors : \A r \in 0..(length - 1) :
           IndexedFetch("fetch", sel, r) =>
             /\ (sel.index # None) =>
                  /\ calls' = << "_fetch_index" >>
                  /\ handed' = sel.index
                  /\ item' = Element(sel.index)
             /\ sel.random =>
                  /\ calls' = << "_fetch_random", "_fetch_index" >>
                  /\ handed' = r
                  /\ item' = Element(r)
             /\ sel.snapshot =>
                  /\ calls' = << "_fetch_snapshot" >>
                  /\ handed' = None
                  /\ item' = IF snapshot_impl THEN SnapshotItem ELSE item
             /\ (sel = NoSelector) =>
                  /\ calls' = << "_fetch_default", "_fetch_index" >>
                  /\ handed' # None]_vars

\* fetch(random=True) has run on the Indexed source and loaded an element
C1_Witness ==
    /\ cls = "Indexed"
    /\ op = Op("fetch", "ok", "None")
    /\ calls = << "_fetch_random", "_fetch_index" >>
    /\ item = Element(handed)

\* C2: prepare() leaves the source prepared; on an unprepared source it calls
\* _prepare_data once and performs one fetch, and on a prepared source it calls
\* nothing, changes no state and delivers no notification.
C2_PrepareIdempotent ==
    [][(cls = "DataWebcam" /\ op'.name = "prepare") =>
         /\ prepared'
         /\ IF prepared
            THEN UNCHANGED progVars /\ calls' = << >> /\ delivered' = << >>
            ELSE calls' = << "_prepare_data", "_fetch" >>]_vars

\* a second prepare() has returned: it found the source prepared
C2_Witness ==
    /\ cls = "DataWebcam"
    /\ op = Op("prepare", "ok", "None")
    /\ calls = << >>
    /\ prepared
    /\ fetched

\* C3 as stated: nothing is fetched after construction and after every
\* unprepare(), the data property then raises, and unprepare() on a source
\* that is not prepared changes nothing.
C3_Claim ==
    /\ []((cls = "DataWebcam" /\ op.name \in {"__init__", "unprepare"}) =>
            ~fetched /\ data.ret = "RuntimeError")
    /\ [][(cls = "DataWebcam" /\ op'.name = "unprepare" /\ ~prepared) =>
            UNCHANGED progVars /\ calls' = << >> /\ delivered' = << >>]_vars

\* C4 as stated: fetch() on a source that is not prepared ends with an error
\* and leaves the slot, the metadata and the notifications alone.
C4_Claim ==
    [][(cls = "DataWebcam" /\ op'.name = "fetch" /\ ~prepared) =>
         /\ op'.ret # "ok"
         /\ UNCHANGED dataVars
         /\ delivered' = << >>]_vars

\* C5: a read of the data property returns the current item when fetched is
\* true and raises when it is false, and changes no state.
C5_DataIffFetched ==
    /\ []((cls = "DataWebcam" /\ op.name = "data") =>
            IF fetched THEN op.ret = "ok" /\ op.val = frame
                       ELSE op.ret = "RuntimeError")
    /\ [][(cls = "DataWebcam" /\ op'.name = "data") =>
            UNCHANGED progVars /\ delivered' = << >>]_vars

\* the data property was read before anything was fetched
C5_Witness ==
    /\ cls = "DataWebcam"
    /\ op = Op("data", "RuntimeError", "None")
    /\ prepared
    /\ ~fetched

\* C6 as stated: in no state does the slot hold a data item together with the
\* metadata object of a different fetch call.
C6_Claim == (cls = "DataWebcam" /\ fetched) => frame = "paired"

\* C7 as stated: while the loop is Running no two run_loop workers of the
\* instance are inside run_loop.
C7_Claim ==
    ~loop_stop_event => Cardinality({w \in Workers : wpc[w] # "idle"}) <= 1

\* C8: a worker that finds the stop event set at its while test leaves
\* run_loop without another fetch; and once the loop is stopped, either it is
\* started again or every worker leaves run_loop, its interval wait included,
\* whether or not the clock advances.
C8_LoopTerminates ==
    /\ [][\A w \in Workers :
            (wpc[w] = "loop" /\ loop_stop_event /\ wpc'[w] # wpc[w]) =>
               wpc'[w] = "idle" /\ calls' = << >> /\ UNCHANGED dataVars]_vars
    /\ (loop_stop_event ~> (~loop_stop_event \/ \A w \in Workers : wpc[w] = "idle"))

\* stop_loop() has returned while a worker sleeps in its interval wait
C8_Witness ==
    /\ op.name = "stop_loop"
    /\ loop_stop_event
    /\ \E w \in Workers : wpc[w] = "wait" /\ ~wdue[w]

C10_Claim ==
    cls = "Indexed" =>
        /\ handed # None => (handed >= 0 /\ handed < length)
        /\ index # None => (index >= 0 /\ index < length)

\* C11 as stated: fetch_next() called at the last index N-1 fetches index 0,
\* and called at an index k < N-1 fetches index k+1.
C11_Claim ==
    [][(cls = "Indexed" /\ op'.name = "fetch_next" /\ index # None) =>
         /\ op'.ret = "ok"
         /\ handed' = (IF index = length - 1 THEN 0 ELSE index + 1)
         /\ index' = handed']_vars

\* C12 as stated: fetch_prev() called at index 0 fetches index N-1, and called
\* at an index k > 0 fetches index k-1.
C12_Claim ==
    [][(cls = "Indexed" /\ op'.name = "fetch_prev" /\ index # None) =>
         /\ op'.ret = "ok"
         /\ handed' = (IF index = 0 THEN length - 1 ELSE index - 1)
         /\ index' = handed']_vars

\* C13 as stated: fetch() without a selector fetches the current index + 1 and
\* index 0 when the current index is the last one, so that the index stays in
\* 0..N-1 however often it is repeated.
C13_Claim ==
    [][\A r \in 0..(length - 1) :
         (IndexedFetch("fetch", NoSelector, r) /\ index # None) =>
           /\ op'.ret = "ok"
           /\ handed' = (IF index = length - 1 THEN 0 ELSE index + 1)
           /\ index' = handed']_vars

\* C14: from every current index, fetch_first() loads element 0 and
\* fetch_last() loads element N-1 through one call of _fetch_index, and the
\* fetch ends without an error.
C14_FirstLast ==
    [][/\ (cls = "Indexed" /\ op'.name = "fetch_first") =>
            /\ op'.ret = "ok"
            /\ calls' = << "_fetch_index" >>
            /\ handed' = 0
            /\ index' = 0
            /\ item' = Element(0)
       /\ (cls = "Indexed" /\ op'.name = "fetch_last") =>
            /\ op'.ret = "ok"
            /\ calls' = << "_fetch_index" >>
            /\ handed' = length - 1
            /\ index' = length - 1
            /\ item' = Element(length - 1)]_vars

\* fetch_last() has loaded the last element of a source of more than one
\* element
C14_Witness ==
    /\ cls = "Indexed"
    /\ length > 1
    /\ op = Op("fetch_last", "ok", "None")
    /\ index = length - 1
    /\ item = Element(length - 1)

\* C15 as stated: source[i] with i in [0, N) fetches index i, so that the
\* current index becomes i, and returns the item that is then the current one.
C15_Claim ==
    [][\A i \in 0..(length - 1) :
         GetItem(i) =>
           /\ op'.ret = "ok"
           /\ handed' = i
           /\ index' = i
           /\ item' = Element(i)]_vars

\* C16: fetch_random(), and fetch(random=True) alike, loads its element
\* through one call of _fetch_index with an index in [0, N) and ends without
\* an error, whatever the current index and the value drawn.
C16_RandomInRange ==
    [][\A r \in 0..(length - 1) :
         (\/ IndexedFetch("fetch_random", [NoSelector EXCEPT !.random = TRUE], r)
          \/ IndexedFetch("fetch", [NoSelector EXCEPT !.random = TRUE], r)) =>
           /\ op'.ret = "ok"
           /\ Count(calls', "_fetch_index") = 1
           /\ handed' \in 0..(length - 1)
           /\ index' = handed'
           /\ item' = Element(handed')]_vars

\* fetch_random() has drawn the last index and loaded its element
C16_Witness ==
    /\ cls = "Indexed"
    /\ length > 1
    /\ op = Op("fetch_random", "ok", "None")
    /\ calls = << "_fetch_random", "_fetch_index" >>
    /\ handed = length - 1
    /\ index = length - 1

\* C17: a prepare() that finds the source unprepared and completes delivers
\* exactly one notification, which carries data_changed (raised by its fetch)
\* together with state_changed; it is delivered by the step that completes
\* prepare(), and no notification carries one of the two kinds alone.
C17_Coalesced ==
    [][(cls = "DataWebcam" /\ op'.name = "prepare" /\ ~prepared /\ op'.ret = "ok") =>
         /\ Len(delivered') = 1
         /\ delivered'[1] = {"data_changed", "state_changed"}]_vars

\* prepare() has completed on an unprepared source: it allocated, fetched and
\* notified
C17_Witness ==
    /\ cls = "DataWebcam"
    /\ op = Op("prepare", "ok", "None")
    /\ calls = << "_prepare_data", "_fetch" >>
    /\ frame = "paired"
    /\ delivered = << {"data_changed", "state_changed"} >>

\* the public methods that are a fetch call
FetchNames ==
    {"fetch", "fetch_random", "fetch_next", "fetch_prev", "fetch_first", "fetch_last"}

\* the notifications among seq that carry data_changed
DataChanged(seq) == {k \in DOMAIN seq : "data_changed" \in seq[k]}

\* C18: a fetch call attaches its Metadata before it raises data_changed, and
\* a fetch call whose strategy completes raises data_changed once.  On the
\* caller's thread a fetch call (prepare()'s included) that delivers
\* data_changed has attached its Metadata, and the frame it stored is the one
\* of that Metadata; a completed one delivers data_changed in one
\* notification.  On a worker the three statements are steps of their own: the
\* Metadata of the call is attached when the worker enters the frame read, the
\* assignment of the frame follows the read only, and data_changed is
\* delivered, once, by the step that ends the call and by no step before it.
C18_MetadataBeforeNotify ==
    /\ [][(op'.name \in FetchNames \cup {"prepare"} /\ DataChanged(delivered') # {}) =>
            /\ metadata' = "Metadata"
            /\ (cls = "DataWebcam") => frame' = "paired"]_vars
    /\ [][(op'.name \in FetchNames \cup {"prepare"} /\ op'.ret = "ok" /\ calls' # << >>) =>
            Cardinality(DataChanged(delivered')) = 1]_vars
    /\ [][\A w \in Workers :
            /\ (wpc'[w] = "read" /\ wpc[w] # "read") =>
                   wpc[w] = "fetch" /\ metadata' = "Metadata" /\ wcall'[w] = "paired"
            /\ (wpc'[w] = "assign" /\ wpc[w] # "assign") => wpc[w] = "read"
            /\ (wpc[w] = "assign" /\ wpc'[w] # "assign") =>
                   delivered' = << {"data_changed"} >>
            /\ (op'.name = "run_loop" /\ delivered' # << >>) =>
                   \E v \in Workers : wpc[v] = "assign" /\ wpc'[v] # "assign"]_vars
    /\ [](\A w \in Workers : wpc[w] \in {"read", "assign"} => metadata = "Metadata")

\* a worker has read the frame of its fetch call and has not stored it yet:
\* the Metadata of the call is attached and data_changed is still to come
C18_Witness ==
    /\ cls = "DataWebcam"
    /\ \E w \in Workers : wpc[w] = "assign" /\ wcall[w] = "paired"
    /\ metadata = "Metadata"
    /\ frame # "paired"
    /\ delivered = << >>

\* C19: unprepare() on a prepared source calls _unprepare_data, which releases
\* the capture and clears the frame, so that the source is neither prepared
\* nor fetched when it returns, and delivers one notification carrying
\* state_changed and data_changed; on a source that is not prepared it calls
\* no primitive, changes no state and delivers nothing.
C19_UnprepareEffect ==
    [][(cls = "DataWebcam" /\ op'.name = "unprepare") =>
         IF prepared
         THEN /\ calls' = << "_unprepare_data" >>
              /\ capture' = "None"
              /\ frame' = "None"
              /\ ~prepared'
              /\ ~fetched'
              /\ delivered' = << {"state_changed", "data_changed"} >>
              /\ UNCHANGED <<cfgVars, ctlVars, regVars, labelVars, idxVars, loopVars, workerVars>>
         ELSE /\ UNCHANGED progVars
              /\ calls' = << >>
              /\ delivered' = << >>]_vars

\* unprepare() has returned on a source that was prepared; the Metadata
\* object of its last fetch call is still in _metadata
C19_Witness ==
    /\ cls = "DataWebcam"
    /\ op = Op("unprepare", "ok", "None")
    /\ calls = << "_unprepare_data" >>
    /\ metadata = "Metadata"
    /\ ~prepared
    /\ ~fetched

\* C20 as stated: a prepare() whose allocation fails (the capture it obtained
\* has not opened the device) ends with an error, performs no fetch, raises no
\* state_changed and leaves the source unprepared; a prepare() that finds the
\* capture of a failed allocation allocates again.
C20_Claim ==
    [][/\ (cls = "DataWebcam" /\ op'.name = "prepare" /\ ~prepared
                /\ capture' = "unopened") =>
            /\ op'.ret = "RuntimeError"
            /\ Count(calls', "_fetch") = 0
            /\ \A k \in DOMAIN delivered' : "state_changed" \notin delivered'[k]
            /\ ~prepared'
       /\ (cls = "DataWebcam" /\ op'.name = "prepare" /\ capture = "unopened") =>
            Count(calls', "_prepare_data") = 1]_vars

\* C21 as stated: a read of the metadata property returns the Metadata object
\* of the fetch call whose item is in the slot, and when nothing is fetched it
\* raises the error that the data property raises.
C21_Claim ==
    (cls = "DataWebcam" /\ op.name = "metadata") =>
        IF fetched
        THEN op.ret = "ok" /\ op.val = "Metadata" /\ frame = "paired"
        ELSE op.ret = data.ret

\* C22 as stated: the constructed instances have pairwise distinct ids, and
\* the table of instances maps the id of every instance to that instance.
C22_Claim ==
    /\ \A i, j \in 1..Len(instance_ids) :
          i # j => instance_ids[i] # instance_ids[j]
    /\ \A i \in 1..Len(instance_ids) : item_lookup_table[instance_ids[i]] = i

\* the notifications among seq that carry state_changed
StateChanged(seq) == {k \in DOMAIN seq : "state_changed" \in seq[k]}

\* C23: Labeled.prepare() calls _prepare_data exactly when the data are not
\* prepared and _prepare_labels exactly when the labels are not, and leaves
\* both prepared.  When it prepared one of them it fetches once, after the
\* preparations, and delivers state_changed in one notification; when both
\* were prepared it calls nothing, changes nothing and delivers nothing.
C23_LabeledPrepare ==
    [][(cls = "Labeled" /\ op'.name = "prepare") =>
         /\ Count(calls', "_prepare_data") = (IF lprepared THEN 0 ELSE 1)
         /\ Count(calls', "_prepare_labels") = (IF labels_prepared THEN 0 ELSE 1)
         /\ lprepared'
         /\ labels_prepared'
         /\ IF ~lprepared \/ ~labels_prepared
            THEN /\ Count(calls', "_fetch") = 1
                 /\ calls'[Len(calls')] = "_fetch"
                 /\ Cardinality(StateChanged(delivered')) = 1
            ELSE /\ calls' = << >>
                 /\ delivered' = << >>
                 /\ UNCHANGED progVars]_vars

\* prepare() has prepared the data of a source whose labels were prepared
\* already
C23_Witness ==
    /\ cls = "Labeled"
    /\ op.name = "prepare"
    /\ calls = << "_prepare_data", "_fetch" >>
    /\ delivered = << {"data_changed", "state_changed"} >>
    /\ lprepared
    /\ labels_prepared

\* C24: add_label_format(format, table) with len(table) # number_of_labels
\* raises ValueError and leaves the mapping of formats, like every other
\* attribute of the source, as it was.
C24_AddRejected ==
    [][(cls = "Labeled" /\ op'.name = "add_label_format") =>
         \A format \in Formats : \A t \in InputTables :
            (len(t) # number_of_labels /\ AddLabelFormat(format, t)) =>
               /\ op'.ret = "ValueError"
               /\ label_formats' = label_formats
               /\ UNCHANGED progVars]_vars

\* a table of the wrong length was rejected while a format was registered
C24_Witness ==
    /\ cls = "Labeled"
    /\ op.name = "add_label_format"
    /\ op.ret = "ValueError"
    /\ labels_prepared
    /\ label_formats["text"] # NoTable

\* C25: in every state the forward table of every registered format has
\* exactly number_of_labels entries.
C25_TableLength ==
    cls = "Labeled" =>
        \A format \in Formats :
            label_formats[format] # NoTable =>
                len(label_formats[format]) = number_of_labels

\* unprepare() has returned on a source with a registered format
C25_Witness ==
    /\ cls = "Labeled"
    /\ op.name = "unprepare"
    /\ formats_attr = "{}"
    /\ label_formats["text"] # NoTable

\* C26 as stated: with the format 'text' registered, the text that
\* format_labels(l, format='text') returns for a numeric label l is translated
\* back to l by format_labels(text, format=None, origin='text').
C26_Claim ==
    [][\A l \in 0..(NumLabels - 1) :
         LET forward == format_labels(IntLabel(l), "text", NoFormat, NoTable)
         IN  (registered("text") /\ FormatLabels(forward.val, NoFormat, "text")) =>
                /\ forward.ret = "ok"
                /\ op'.ret = "ok"
                /\ op'.val = IntLabel(l)]_vars

\* C27 as stated: a reverse table is built by the first format_labels call
\* that has its format as origin and is left alone by later calls, and no
\* reverse table remains after unprepare() or unprepare_labels().
C27_Claim ==
    [][/\ \A labels \in LabelInputs \ {NoneLabel} : \A format \in FormatArgs :
            \A origin \in Formats :
               (registered(origin) /\ FormatLabels(labels, format, origin)) =>
                  /\ label_reverse'[origin] # NoTable
                  /\ label_reverse[origin] # NoTable => UNCHANGED label_reverse
       /\ (cls = "Labeled" /\ op'.name \in {"unprepare", "unprepare_labels"}) =>
            \A format \in Formats : label_reverse'[format] = NoTable]_vars

\* C28 as stated: format_labels of a single label or of a sequence raises
\* ValueError whenever format or origin names a format that is not
\* registered, and returns the labels as they are when both are None.
C28_Claim ==
    [][\A labels \in LabelInputs \ {NoneLabel} : \A format, origin \in FormatArgs :
         FormatLabels(labels, format, origin) =>
            /\ ((format # NoFormat /\ ~registered(format))
                   \/ (origin # NoFormat /\ ~registered(origin))) =>
                  op'.ret = "ValueError"
            /\ (format = NoFormat /\ origin = NoFormat) =>
                  op'.ret = "ok" /\ op'.val = labels]_vars

\* C29 as stated: get_label(format) fails while the labels are not prepared
\* or nothing is fetched; otherwise it returns the numeric label of the
\* current item for format None and the entry of the forward table at that
\* label for a registered format.
C29_Claim ==
    [][\A format \in FormatArgs :
         GetLabel(format) =>
            IF ~labels_prepared \/ ~labeled_fetched THEN op'.ret # "ok"
            ELSE IF format = NoFormat
            THEN op'.ret = "ok" /\ op'.val = backend_get_label
            ELSE registered(format) =>
                    /\ op'.ret = "ok"
                    /\ op'.val = label_formats[format].values[item.index + 1]]_vars

\* C30 as stated: one_hot_for_labels fails while number_of_labels is unknown;
\* otherwise a single label l gives a vector of number_of_labels entries that
\* is 1 at l and 0 elsewhere, and a sequence gives a matrix whose row i is 1
\* at column labels[i] and 0 elsewhere.
C30_Claim ==
    [][\A labels \in OneHotInputs :
         LET one_hot(l) == Batch([j \in 1..number_of_labels |->
                                     IntLabel(IF j - 1 = l.n THEN 1 ELSE 0)])
         IN  OneHot(labels, NoFormat) =>
                IF number_of_labels = None THEN op'.ret # "ok"
                ELSE /\ op'.ret = "ok"
                     /\ op'.val = IF labels.kind = "int" THEN one_hot(labels)
                                  ELSE Batch([i \in DOMAIN labels.items |->
                                                 one_hot(labels.items[i])])]_vars

\* C31 as stated: on linux, fetch_snapshot() on the prepared DataWebcam enters
\* the _fetch_snapshot policy (four frames read and discarded, then the frame
\* that is stored), while the fetch() of the polling loop reads once.
C31_Claim ==
    [][(cls = "DataWebcam" /\ platform = "linux" /\ prepared
          /\ op'.name = "fetch_snapshot" /\ op'.ret = "ok") =>
            Count(calls', "_fetch_snapshot") = 1]_vars

\* C32 as stated: a fetch() of the DataWebcam whose read fails raises to the
\* caller, delivers no notification and leaves _frame, _metadata (the frame
\* still being the one its Metadata was made for) and fetched as they were.
C32_Claim ==
    [][(cls = "DataWebcam" /\ op'.name \in {"fetch", "fetch_snapshot"}
          /\ op'.ret # "ok") =>
            /\ delivered' = << >>
            /\ fetched' = fetched
            /\ metadata' = metadata
            /\ frame' = frame]_vars

\* C33 as stated: whenever a run_loop worker executes self._capture.read()
\* (in the _fetch of its fetch, or reading the frame it ignores) or a fetch()
\* of the caller enters _fetch, the DataWebcam is prepared, i.e. _capture is
\* a capture and not None.
C33_Claim ==
    [][/\ \A w \in Workers : (WRead(w) \/ WIgnore(w)) => prepared
       /\ (cls = "DataWebcam" /\ op'.name \in {"fetch", "fetch_snapshot", "prepare"}
             /\ Count(calls', "_fetch") > 0) => capture' # "None"]_vars

\* how far a worker is from the end of a round of run_loop: it has passed
\* the test of the stop event and is about to call fetch (4), is inside
\* fetch before (3) and after (2) the read, is between two fetches (1), or
\* has left run_loop (0)
Rank(pc) ==
    CASE pc = "fetch" -> 4
      [] pc = "read" -> 3
      [] pc = "assign" -> 2
      [] pc = "idle" -> 0
      [] OTHER -> 1

\* C34: while the stop event stays set (stop_loop() has returned and no
\* start_loop() follows), no worker comes to call fetch unless it had passed
\* the test of the stop event before, and the fetch it is in cannot start
\* over: every worker only moves towards the end of run_loop, and the step
\* that raises data_changed moves it strictly.  So each worker begins at most
\* one fetch and raises at most one data_changed after the stop.
C34_OneFetchAfterStop ==
    [][(cls = "DataWebcam" /\ loop_stop_event /\ loop_stop_event') =>
         \A w \in Workers :
            /\ Rank(wpc'[w]) <= Rank(wpc[w])
            /\ wpc[w] = "fetch" => (wpc'[w] = "fetch" \/ Rank(wpc'[w]) < 4)
            /\ WAssign(w) => Rank(wpc'[w]) < Rank(wpc[w])]_vars

\* the loop was stopped and a worker that had passed the test of the stop
\* event before has completed its fetch and raised data_changed
C34_Witness ==
    /\ cls = "DataWebcam"
    /\ loop_stop_event
    /\ busy = "False"
    /\ op.name = "run_loop"
    /\ delivered = << {"data_changed"} >>

\* C35: a step of run_loop that ends with an exception (the read of its fetch
\* failed) ends that worker and leaves the stop event and busy as they were;
\* only start_loop() and stop_loop() ever change them.
C35_WorkerDies ==
    [][/\ (cls = "DataWebcam" /\ op'.name = "run_loop" /\ op'.ret # "ok") =>
            /\ \E w \in Workers : wpc[w] # "idle" /\ wpc'[w] = "idle"
            /\ UNCHANGED <<loopVars, dataVars>>
            /\ delivered' = << >>
       /\ (cls = "DataWebcam" /\ loopVars' # loopVars) =>
            op'.name \in {"start_loop", "stop_loop"}]_vars

\* the read of the only worker's fetch has failed: no worker runs, and the
\* source is still looping and busy
C35_Witness ==
    /\ cls = "DataWebcam"
    /\ op.name = "run_loop"
    /\ op.ret = "RuntimeError"
    /\ \A w \in Workers : wpc[w] = "idle"
    /\ looping
    /\ busy = "Looping"

\* C36 as stated: a prepare() that takes the DataWebcam from not prepared to
\* prepared delivers a notification carrying state_changed, whether or not
\* its initial fetch raised.
C36_Claim ==
    [][(cls = "DataWebcam" /\ op'.name = "prepare" /\ ~prepared /\ prepared') =>
          StateChanged(delivered') # {}]_vars

\* C37 as stated: in every state, a reverse table cached for a format maps
\* each entry of the format's forward table back to the place of that entry.
C37_Claim ==
    cls = "Labeled" =>
        \A format \in Formats :
            label_reverse[format] # NoTable =>
                \A k \in DOMAIN label_formats[format].values :
                    table_get(label_reverse[format], label_formats[format].values[k])
                        = Ok(IntLabel(k - 1))

\* C38 as stated: a call of the decorated method that passes no run argument
\* is submitted to the executor exactly when the calling thread is a GUI
\* event loop thread and no 'runner' thread, and runs synchronously on the
\* calling thread otherwise.
C38_Claim ==
    [][\A thread \in Threads :
         CallProcessAll("absent", thread) =>
            op'.val = IF thread.GUI_event_loop /\ ~thread.runner
                      THEN "submitted" ELSE "synchronous"]_vars

\* C39 as stated: the Controller never rests (no run of the processing loop
\* begun or in progress, the detector not busy) with a data item waiting in
\* _next_data.
C39_Claim ==
    cls = "Controller" =>
        ~(/\ next_data # None
          /\ ~detector_busy
          /\ \A r \in Runs : rpc[r] = "idle")

====
